---- MODULE Spec2Model ----
(***************************************************************************)
(* keyring-rs, src/lib.rs: the default credential-builder registry         *)
(* (DEFAULT_BUILDER behind a std::sync::RwLock, the platform default       *)
(* behind a std::sync::OnceLock), Entry creation through it, and the Entry *)
(* methods that forward to the wrapped credential.                         *)
(***************************************************************************)
EXTENDS Integers, Sequences, FiniteSets, TLC

\* ---------------------------------------------------------------- bounds
NumThreads == 2
MaxPasswordLen == 1
MaxSecretLen == 2

None == "None"
Threads == 1..NumThreads
MainThread == CHOOSE p \in Threads : \A q \in Threads : p <= q

\* the credential builders a client may install, and the one that
\* default::default_credential_builder() constructs
ClientBuilders == {"F1", "F2"}
Platform == "platform"
Targets == {"t"}

\* the values a client stores: passwords are strings (sequences of Unicode
\* scalar values: 'A', U+00E9, U+3053), secrets are byte sequences
Chars == {65, 233, 12371}
Bytes == {65, 169, 195, 254, 255}
SeqsUpTo(S, n) == UNION {[1..k -> S] : k \in 0..n}
Passwords == SeqsUpTo(Chars, MaxPasswordLen)
Secrets == SeqsUpTo(Bytes, MaxSecretLen)

VARIABLES
    DEFAULT_BUILDER,  \* EntryBuilder.inner: None or the installed Box
    readers,          \* RwLock: number of read guards alive
    writer,           \* RwLock: a write guard is alive
    once,             \* OnceLock DEFAULT: "incomplete", "running", "complete"
    DEFAULT,          \* OnceLock DEFAULT: None or the instance it holds
    constructed,      \* number of calls of default_credential_builder()
    pc,               \* per thread: position inside the call it is running
    target,           \* per thread: argument `target` of build_default_credential
    new,              \* per thread: argument `new` of set_default_credential_builder
    builder,          \* per thread: local `builder` of build_default_credential
    credential,       \* per thread: result of builder.build(..)
    entry,            \* the Entry the client holds (Entry.inner), if any
    startOverride,    \* history, per creation: builder installed when the call started
    racers,           \* history, per creation: builders of the installs it overlapped
    lastCall,         \* history: the latest method call on the Entry and what it returned
    lastWrite,        \* history: the latest set or delete on the Entry that succeeded
    lastInstalled,    \* history: argument of the latest set_default_credential_builder
                      \* call that returned
    poisoned,         \* RwLock: a writer panicked while it held the write guard
    startPoisoned,    \* history, per call: the lock was poisoned when the call started
    target_os,        \* build: cfg(target_os) of the compilation
    features,         \* build: the cargo features enabled
    default           \* build: the module bound to the alias `default`

vars == <<DEFAULT_BUILDER, readers, writer, once, DEFAULT, constructed,
          pc, target, new, builder, credential, entry, startOverride, racers,
          lastCall, lastWrite, lastInstalled, poisoned, startPoisoned,
          target_os, features, default>>

registry == <<DEFAULT_BUILDER, readers, writer, once, DEFAULT, constructed>>
locals == <<target, new, builder, credential>>
history == <<startOverride, racers, startPoisoned>>
calls == <<lastCall, lastWrite>>
configuration == <<target_os, features, default>>

Creating == {"read", "resolve", "init", "build", "built"}
ReadSection == {"resolve", "init", "build", "built"}
Installing == {"write", "store", "unlock"}
WriteSection == {"store", "unlock"}

InRead == {p \in Threads : pc[p] \in ReadSection}
InWrite == {p \in Threads : pc[p] \in WriteSection}

\* Option<Box<CredentialBuilder>>::None, and Option<Vec<u8>>::None
NoBuilder == [fac |-> None, inst |-> 0, live |-> TRUE]
NoSecret == [some |-> FALSE, val |-> <<>>]
NoEntry == [by |-> None, target |-> None, secret |-> NoSecret]
NoCredential == [res |-> None, by |-> NoBuilder]
NoCall == [op |-> None, res |-> [kind |-> None, ty |-> None, val |-> <<>>],
           had |-> FALSE, changed |-> FALSE]
NeverWritten == [op |-> "never", val |-> <<>>, replaced |-> FALSE, revived |-> FALSE]

\* ------------------------------------------------------ lock primitives
\* a read() that does not wait for the writer
read_ignores_writer(w) == TRUE

\* RwLock::read(): granted while no write guard is alive
read_may_acquire(w) == ~w

\* a write() that waits for other writers only
write_ignores_readers(r, w) == ~w

\* RwLock::write(): granted while no guard at all is alive
write_may_acquire(r, w) == r = 0 /\ ~w

\* a lazy initializer that tests and then sets, with no exclusion
get_or_init_unsynchronized(state) == state # "complete"

\* a write guard that is never released
write_guard_leaked(w) == w

\* drop of the RwLockWriteGuard at the end of set_default_credential_builder
write_guard_dropped(w) == FALSE

\* OnceLock::get_or_init(): the closure runs only from the incomplete state
get_or_init_may_run(state) == state = "incomplete"

\* a resolve that prefers the platform default once it is cached
uses_override_unless_cached(inner) == inner # NoBuilder /\ once # "complete"

\* a resolve that initialises the platform default before it looks at the slot
uses_override_after_init(inner) == inner # NoBuilder /\ once = "complete"

\* guard.inner.as_ref().unwrap_or_else(..): the override, when there is one
uses_override(inner) == inner # NoBuilder

\* an install that keeps an override that is already there
stored_inner_keep_first(old, n) == IF old = NoBuilder THEN n ELSE old

\* guard.inner = Some(new)
stored_inner(old, n) == n

\* `guard.inner = Some(new)` drops the Box that was installed: every
\* reference `builder` into it dangles from then on
\* the read guard goes out of scope on both ways out of build_default_credential
read_guard_kept_on_error(r, c) == IF c.res = "Err" THEN r ELSE r - 1

read_guard_dropped(r, c) == r - 1

\* .expect("Poisoned RwLock in keyring-rs: please report a bug!")
expect_panics(isPoisoned) == isPoisoned

drop_old(b) == IF b.fac \in ClientBuilders THEN [b EXCEPT !.live = FALSE] ELSE b

\* ------------------------------------------------------------------ Init
\* ------------------------------------------------ selection of `default`
TargetOS == {"linux", "freebsd", "openbsd", "macos", "ios", "windows", "other"}
KeystoreFeatures == {"apple-native", "windows-native", "linux-native",
                     "sync-secret-service", "async-secret-service"}
Modules == {"keyutils", "secret_service", "macos", "ios", "windows", "mock"}
NotCompiled == [error |-> FALSE, bound |-> {"not compiled"}]

\* the compile_error! guard: "no duplicate keystores on any platform"
compile_error_no_secret_service_pair(f) ==
    \/ "linux-native" \in f /\ "sync-secret-service" \in f
    \/ "linux-native" \in f /\ "async-secret-service" \in f

compile_error(f) ==
    \/ "linux-native" \in f /\ "sync-secret-service" \in f
    \/ "linux-native" \in f /\ "async-secret-service" \in f
    \/ "sync-secret-service" \in f /\ "async-secret-service" \in f

\* the cfg attribute of each `use .. as default`
use_keyutils(os, f) == os = "linux" /\ "linux-native" \in f

use_secret_service_linux_only(os, f) ==
    /\ os = "linux"
    /\ ("sync-secret-service" \in f \/ "async-secret-service" \in f)

use_secret_service(os, f) ==
    /\ os \in {"linux", "freebsd", "openbsd"}
    /\ ("sync-secret-service" \in f \/ "async-secret-service" \in f)

use_macos(os, f) == os = "macos" /\ "apple-native" \in f

use_ios(os, f) == os = "ios" /\ "apple-native" \in f

use_windows(os, f) == os = "windows" /\ "windows-native" \in f

use_mock(os, f) ==
    \/ /\ os = "linux"
       /\ ~("linux-native" \in f \/ "sync-secret-service" \in f
            \/ "async-secret-service" \in f)
    \/ /\ os \in {"freebsd", "openbsd"}
       /\ ~("sync-secret-service" \in f \/ "async-secret-service" \in f)
    \/ os = "macos" /\ "apple-native" \notin f
    \/ os = "ios" /\ "apple-native" \notin f
    \/ os = "windows" /\ "windows-native" \notin f
    \/ os \notin {"linux", "freebsd", "openbsd", "macos", "ios", "windows"}

\* the modules that the active `use .. as default` items bind
use_as_default(os, f) ==
    {m \in Modules :
        \/ m = "keyutils" /\ use_keyutils(os, f)
        \/ m = "secret_service" /\ use_secret_service(os, f)
        \/ m = "macos" /\ use_macos(os, f)
        \/ m = "ios" /\ use_ios(os, f)
        \/ m = "windows" /\ use_windows(os, f)
        \/ m = "mock" /\ use_mock(os, f)}

Compiled(os, f) == [error |-> compile_error(f), bound |-> use_as_default(os, f)]

InitRegistry ==
    /\ poisoned = FALSE
    /\ DEFAULT_BUILDER = NoBuilder
    /\ readers = 0
    /\ writer = FALSE
    /\ once = "incomplete"
    /\ DEFAULT = NoBuilder
    /\ constructed = 0
    /\ pc = [p \in Threads |-> "idle"]
    /\ target = [p \in Threads |-> None]
    /\ new = [p \in Threads |-> NoBuilder]
    /\ builder = [p \in Threads |-> NoBuilder]
    /\ credential = [p \in Threads |-> NoCredential]
    /\ entry = NoEntry
    /\ startOverride = [p \in Threads |-> None]
    /\ startPoisoned = [p \in Threads |-> FALSE]
    /\ racers = [p \in Threads |-> {}]
    /\ lastCall = NoCall
    /\ lastWrite = NeverWritten
    /\ lastInstalled = None

\* the running program: built for a platform without a native keystore
Init ==
    /\ InitRegistry
    /\ target_os = "other"
    /\ features = {}
    /\ default = Compiled("other", {})

\* the build: any target platform with any set of keystore features
InitBuild ==
    /\ InitRegistry
    /\ target_os \in TargetOS
    /\ features \in SUBSET KeystoreFeatures
    /\ default = NotCompiled

\* conditional compilation of lib.rs
compile ==
    /\ default = NotCompiled
    /\ default' = Compiled(target_os, features)
    /\ UNCHANGED <<registry, pc, locals, entry, history, calls, lastInstalled,
                   poisoned, target_os, features>>

\* ------------------------------------------------------- Entry creation
\* entry into build_default_credential(target, service, user)
build_default_credential(p, t) ==
    /\ pc[p] = "idle"
    /\ pc' = [pc EXCEPT ![p] = "read"]
    /\ target' = [target EXCEPT ![p] = t]
    /\ startOverride' = [startOverride EXCEPT ![p] = DEFAULT_BUILDER.fac]
    /\ startPoisoned' = [startPoisoned EXCEPT ![p] = poisoned]
    /\ racers' = [racers EXCEPT
                    ![p] = {new[q].fac : q \in {r \in Threads : pc[r] \in Installing}}]
    /\ UNCHANGED <<registry, new, builder, credential, entry, calls>>
    /\ UNCHANGED <<lastInstalled, poisoned, configuration>>

Entry_new(p) == build_default_credential(p, None)

Entry_new_with_target(p) == \E t \in Targets : build_default_credential(p, t)

\* let guard = DEFAULT_BUILDER.read().expect(..)
read_lock(p) ==
    /\ pc[p] = "read"
    /\ read_may_acquire(writer)
    /\ IF expect_panics(poisoned)
       THEN \* read() returns Err(PoisonError): expect panics, the guard is dropped
            /\ pc' = [pc EXCEPT ![p] = "expect_panicked"]
            /\ UNCHANGED readers
       ELSE /\ readers' = readers + 1
            /\ pc' = [pc EXCEPT ![p] = "resolve"]
    /\ UNCHANGED <<DEFAULT_BUILDER, writer, once, DEFAULT, constructed,
                   locals, entry, history, calls>>
    /\ UNCHANGED <<lastInstalled, poisoned, configuration>>

\* let builder = guard.inner.as_ref().unwrap_or_else(|| DEFAULT.get_or_init(..))
resolve(p) ==
    /\ pc[p] = "resolve"
    /\ IF uses_override(DEFAULT_BUILDER)
       THEN /\ builder' = [builder EXCEPT ![p] = DEFAULT_BUILDER]
            /\ pc' = [pc EXCEPT ![p] = "build"]
            /\ UNCHANGED once
       ELSE IF once = "complete"
       THEN /\ builder' = [builder EXCEPT ![p] = DEFAULT]
            /\ pc' = [pc EXCEPT ![p] = "build"]
            /\ UNCHANGED once
       ELSE /\ get_or_init_may_run(once)
            /\ once' = "running"
            /\ pc' = [pc EXCEPT ![p] = "init"]
            /\ UNCHANGED builder
    /\ UNCHANGED <<DEFAULT_BUILDER, readers, writer, DEFAULT, constructed,
                   target, new, credential, entry, history, calls>>
    /\ UNCHANGED <<lastInstalled, poisoned, configuration>>

\* the closure of get_or_init: default::default_credential_builder()
default_credential_builder(p) ==
    /\ pc[p] = "init"
    /\ constructed' = constructed + 1
    /\ DEFAULT' = [fac |-> Platform, inst |-> constructed + 1, live |-> TRUE]
    /\ once' = "complete"
    /\ builder' = [builder EXCEPT ![p] = [fac |-> Platform, inst |-> constructed + 1, live |-> TRUE]]
    /\ pc' = [pc EXCEPT ![p] = "build"]
    /\ UNCHANGED <<DEFAULT_BUILDER, readers, writer,
                   target, new, credential, entry, history, calls>>
    /\ UNCHANGED <<lastInstalled, poisoned, configuration>>

\* let credential = builder.build(target, service, user)?
build(p) ==
    /\ pc[p] = "build"
    /\ IF ~builder[p].live
       THEN \* use after free: the call crashes, or runs whatever is there
            \/ /\ pc' = [pc EXCEPT ![p] = "crashed"]
               /\ UNCHANGED credential
            \/ /\ \E f \in ClientBuilders \cup {Platform, "garbage"} :
                     credential' = [credential EXCEPT
                        ![p] = [res |-> "Ok", by |-> [builder[p] EXCEPT !.fac = f]]]
               /\ pc' = [pc EXCEPT ![p] = "built"]
       ELSE /\ \E ok \in BOOLEAN :
                 credential' = [credential EXCEPT
                    ![p] = [res |-> IF ok THEN "Ok" ELSE "Err", by |-> builder[p]]]
            /\ pc' = [pc EXCEPT ![p] = "built"]
    /\ UNCHANGED <<registry, target, new, builder, entry, history, calls>>
    /\ UNCHANGED <<lastInstalled, poisoned, configuration>>

\* Ok(Entry { inner: credential }) or the error of `?`; the guard is dropped
return_entry(p) ==
    /\ pc[p] = "built"
    /\ readers' = read_guard_dropped(readers, credential[p])
    /\ \E keep \in BOOLEAN :
          IF keep /\ credential[p].res = "Ok"
          THEN /\ entry' = [by |-> credential[p].by.fac, target |-> target[p],
                            secret |-> NoSecret]
               /\ lastCall' = NoCall
               /\ lastWrite' = NeverWritten
          ELSE UNCHANGED <<entry, calls>>
    /\ pc' = [pc EXCEPT ![p] = "idle"]
    /\ target' = [target EXCEPT ![p] = None]
    /\ builder' = [builder EXCEPT ![p] = NoBuilder]
    /\ credential' = [credential EXCEPT ![p] = NoCredential]
    /\ startOverride' = [startOverride EXCEPT ![p] = None]
    /\ UNCHANGED startPoisoned
    /\ racers' = [racers EXCEPT ![p] = {}]
    /\ UNCHANGED <<DEFAULT_BUILDER, writer, once, DEFAULT, constructed, new>>
    /\ UNCHANGED <<lastInstalled, poisoned, configuration>>

\* ------------------------------------------ set_default_credential_builder
\* entry into set_default_credential_builder(new)
set_default_credential_builder(p) ==
    /\ pc[p] = "idle"
    /\ \E f \in ClientBuilders :
         /\ new' = [new EXCEPT ![p] = [fac |-> f, inst |-> 0, live |-> TRUE]]
         /\ racers' = [q \in Threads |->
                         IF pc[q] \in Creating THEN racers[q] \cup {f} ELSE racers[q]]
    /\ startPoisoned' = [startPoisoned EXCEPT ![p] = poisoned]
    /\ pc' = [pc EXCEPT ![p] = "write"]
    /\ UNCHANGED <<DEFAULT_BUILDER, readers, writer, once, DEFAULT, constructed,
                   target, builder, credential, entry, startOverride, calls>>
    /\ UNCHANGED <<lastInstalled, poisoned, configuration>>

\* let mut guard = DEFAULT_BUILDER.write().expect(..)
write_lock(p) ==
    /\ pc[p] = "write"
    /\ write_may_acquire(readers, writer)
    /\ IF expect_panics(poisoned)
       THEN \* write() returns Err(PoisonError): expect panics, the guard is dropped
            /\ pc' = [pc EXCEPT ![p] = "expect_panicked"]
            /\ UNCHANGED writer
       ELSE /\ writer' = TRUE
            /\ pc' = [pc EXCEPT ![p] = "store"]
    /\ UNCHANGED <<DEFAULT_BUILDER, readers, once, DEFAULT, constructed,
                   locals, entry, history, calls>>
    /\ UNCHANGED <<lastInstalled, poisoned, configuration>>

\* guard.inner = Some(new)
store(p) ==
    /\ pc[p] = "store"
    /\ DEFAULT_BUILDER' = stored_inner(DEFAULT_BUILDER, new[p])
    /\ builder' = [q \in Threads |-> drop_old(builder[q])]
    /\ pc' = [pc EXCEPT ![p] = "unlock"]
    /\ UNCHANGED <<readers, writer, once, DEFAULT, constructed,
                   target, new, credential, entry, history, calls>>
    /\ UNCHANGED <<lastInstalled, poisoned, configuration>>

\* guard.inner = Some(new) where dropping the previous Box panics (Drop of a
\* client's builder is client code): the new value is still moved into the
\* slot, the guard is dropped while the thread unwinds, which poisons the lock
drop_panics(p) ==
    /\ pc[p] = "store"
    /\ DEFAULT_BUILDER.fac \in ClientBuilders
    /\ DEFAULT_BUILDER' = stored_inner(DEFAULT_BUILDER, new[p])
    /\ builder' = [q \in Threads |-> drop_old(builder[q])]
    /\ writer' = write_guard_dropped(writer)
    /\ poisoned' = TRUE
    /\ new' = [new EXCEPT ![p] = NoBuilder]
    /\ pc' = [pc EXCEPT ![p] = "drop_panicked"]
    /\ UNCHANGED <<readers, once, DEFAULT, constructed,
                   target, credential, entry, history, calls>>
    /\ UNCHANGED <<lastInstalled, configuration>>

\* the write guard is dropped and the call returns
unlock(p) ==
    /\ pc[p] = "unlock"
    /\ writer' = write_guard_dropped(writer)
    /\ lastInstalled' = new[p].fac
    /\ new' = [new EXCEPT ![p] = NoBuilder]
    /\ pc' = [pc EXCEPT ![p] = "idle"]
    /\ UNCHANGED <<DEFAULT_BUILDER, readers, once, DEFAULT, constructed,
                   target, builder, credential, entry, history, calls>>
    /\ UNCHANGED <<poisoned, configuration>>

\* ------------------------------------------------- passwords and bytes
Ok == [kind |-> "Ok", ty |-> "unit", val |-> <<>>]
OkString(str) == [kind |-> "Ok", ty |-> "String", val |-> str]
OkBytes(v) == [kind |-> "Ok", ty |-> "Vec<u8>", val |-> v]
ErrNoEntry == [kind |-> "NoEntry", ty |-> "Error", val |-> <<>>]
ErrBadEncoding(v) == [kind |-> "BadEncoding", ty |-> "Error", val |-> v]
Some(v) == [some |-> TRUE, val |-> v]

\* the UTF-8 encoding of one char
encode_utf8(c) ==
    IF c < 128 THEN <<c>>
    ELSE IF c < 2048 THEN <<192 + (c \div 64), 128 + (c % 64)>>
    ELSE IF c < 65536
    THEN <<224 + (c \div 4096), 128 + ((c \div 64) % 64), 128 + (c % 64)>>
    ELSE <<240 + (c \div 262144), 128 + ((c \div 4096) % 64),
           128 + ((c \div 64) % 64), 128 + (c % 64)>>

\* str::as_bytes
RECURSIVE as_bytes(_)
as_bytes(str) ==
    IF str = <<>> THEN <<>> ELSE encode_utf8(Head(str)) \o as_bytes(Tail(str))

\* the length of the UTF-8 sequence a first byte announces, 0 when it cannot start one
utf8_char_width(b) ==
    IF b < 128 THEN 1
    ELSE IF 194 <= b /\ b <= 223 THEN 2
    ELSE IF 224 <= b /\ b <= 239 THEN 3
    ELSE IF 240 <= b /\ b <= 244 THEN 4
    ELSE 0

\* the range the second byte of a sequence must lie in, given the first
second_byte_ok(b, c) ==
    IF b = 224 THEN 160 <= c /\ c <= 191
    ELSE IF b = 237 THEN 128 <= c /\ c <= 159
    ELSE IF b = 240 THEN 144 <= c /\ c <= 191
    ELSE IF b = 244 THEN 128 <= c /\ c <= 143
    ELSE 128 <= c /\ c <= 191

\* String::from_utf8: the chars of a well-formed sequence, or a failure
RECURSIVE from_utf8(_)
from_utf8(v) ==
    IF v = <<>> THEN [ok |-> TRUE, chars |-> <<>>]
    ELSE LET w == utf8_char_width(v[1])
             bad == [ok |-> FALSE, chars |-> <<>>]
         IN  IF w = 0 \/ Len(v) < w THEN bad
             ELSE IF w > 1 /\ ~second_byte_ok(v[1], v[2]) THEN bad
             ELSE IF \E i \in 3..w : ~(128 <= v[i] /\ v[i] <= 191) THEN bad
             ELSE LET c == IF w = 1 THEN v[1]
                           ELSE IF w = 2 THEN (v[1] - 192) * 64 + (v[2] - 128)
                           ELSE IF w = 3
                           THEN (v[1] - 224) * 4096 + (v[2] - 128) * 64 + (v[3] - 128)
                           ELSE (v[1] - 240) * 262144 + (v[2] - 128) * 4096
                                + (v[3] - 128) * 64 + (v[4] - 128)
                      rest == from_utf8(SubSeq(v, w + 1, Len(v)))
                  IN  IF rest.ok THEN [ok |-> TRUE, chars |-> <<c>> \o rest.chars]
                      ELSE bad

\* error::decode_password
decode_password(v) ==
    LET r == from_utf8(v) IN IF r.ok THEN OkString(r.chars) ELSE ErrBadEncoding(v)

\* --------------------------------------- the credential an Entry wraps
\* CredentialApi of the in-memory store: each yields the credential after
\* the call and what the call returns
cred_set_password(c, password) ==
    [cred |-> [c EXCEPT !.secret = Some(as_bytes(password))], res |-> Ok]

cred_set_secret(c, secret) ==
    [cred |-> [c EXCEPT !.secret = Some(secret)], res |-> Ok]

cred_get_password(c) ==
    [cred |-> c,
     res |-> IF c.secret.some THEN decode_password(c.secret.val) ELSE ErrNoEntry]

cred_get_secret(c) ==
    [cred |-> c, res |-> IF c.secret.some THEN OkBytes(c.secret.val) ELSE ErrNoEntry]

cred_delete_credential(c) ==
    IF c.secret.some
    THEN [cred |-> [c EXCEPT !.secret = NoSecret], res |-> Ok]
    ELSE [cred |-> c, res |-> ErrNoEntry]

\* -------------------------------------------------------- Entry methods
\* a set_password that keeps a value that is already stored
set_password_if_absent(e, password) ==
    IF e.secret.some THEN [cred |-> e, res |-> Ok] ELSE cred_set_password(e, password)

\* self.inner.set_password(password)
set_password(e, password) == cred_set_password(e, password)

\* a set_secret that takes the empty secret for nothing to store
set_secret_skip_empty(e, secret) ==
    IF secret = <<>> THEN [cred |-> e, res |-> Ok] ELSE cred_set_secret(e, secret)

\* self.inner.set_secret(secret)
set_secret_fails_after_delete(e, secret) ==
    IF lastWrite.op = "delete" THEN [cred |-> e, res |-> ErrNoEntry]
    ELSE cred_set_secret(e, secret)

set_secret(e, secret) == cred_set_secret(e, secret)

\* a get_password that decodes lossily: a missing value reads as the empty
\* string, bytes that are not UTF-8 as the replacement character
get_password_or_default(e) ==
    LET r == cred_get_password(e)
    IN  IF r.res = ErrNoEntry THEN [cred |-> e, res |-> OkString(<<>>)] ELSE r

get_password_lossy(e) ==
    LET r == cred_get_password(e)
    IN  IF r.res.kind = "BadEncoding" THEN [cred |-> e, res |-> OkString(<<65533>>)]
        ELSE r

\* self.inner.get_password()
get_password(e) == cred_get_password(e)

\* self.inner.get_secret()
get_secret_of_default_holder(e) ==
    cred_get_secret([e EXCEPT !.by = IF DEFAULT_BUILDER = NoBuilder
                                     THEN Platform ELSE DEFAULT_BUILDER.fac])

get_secret(e) == cred_get_secret(e)

\* a delete_credential that forgets to forward
delete_credential_not_forwarded(e) == [cred |-> e, res |-> Ok]

\* a delete_credential that reports success when nothing is stored
delete_credential_idempotent(e) ==
    LET r == cred_delete_credential(e)
    IN  IF r.res = ErrNoEntry THEN [cred |-> e, res |-> Ok] ELSE r

\* self.inner.delete_credential()
delete_credential(e) == cred_delete_credential(e)

Held == entry.by # None

\* the history kept of a call that returned r: whether a value was stored
\* when it was made, and whether it changed what is stored
Called(op, r) ==
    [op |-> op, res |-> r.res, had |-> entry.secret.some, changed |-> r.cred # entry]
Sets == {"set_password", "set_secret"}
Gets == {"get_password", "get_secret"}
StoredBy(w) == IF w.op = "set_password" THEN as_bytes(w.val) ELSE w.val
Written(op, v) ==
    LET w == [op |-> op, val |-> v, replaced |-> FALSE,
              revived |-> lastWrite.op = "delete" \/ lastWrite.revived]
    IN  [w EXCEPT !.replaced = lastWrite.op \in Sets /\ StoredBy(lastWrite) # StoredBy(w)]

\* Entry::get_credential: self.inner.as_any()
get_credential(e) == [cred |-> e, res |-> [kind |-> "Ok", ty |-> "&dyn Any", val |-> <<>>]]

Entry_new_with_credential_via_registry(p) ==
    /\ pc[p] = "idle"
    /\ \E t \in Targets \cup {None} :
          entry' = [by |-> "caller", target |-> t, secret |-> NoSecret]
    /\ lastCall' = NoCall
    /\ lastWrite' = NeverWritten
    /\ constructed' = constructed + 1
    /\ DEFAULT' = [fac |-> Platform, inst |-> constructed + 1, live |-> TRUE]
    /\ once' = "complete"
    /\ UNCHANGED <<DEFAULT_BUILDER, readers, writer, pc, locals, history>>
    /\ UNCHANGED <<lastInstalled, poisoned, configuration>>

\* Entry::new_with_credential(credential), the credential freshly built by the caller
Entry_new_with_credential(p) ==
    /\ pc[p] = "idle"
    /\ \E t \in Targets \cup {None} :
          entry' = [by |-> "caller", target |-> t, secret |-> NoSecret]
    /\ lastCall' = NoCall
    /\ lastWrite' = NeverWritten
    /\ UNCHANGED <<registry, pc, locals, history>>
    /\ UNCHANGED <<lastInstalled, poisoned, configuration>>

Entry_set_password(p) ==
    /\ pc[p] = "idle"
    /\ Held
    /\ \E password \in Passwords :
          LET r == set_password(entry, password) IN
            /\ entry' = r.cred
            /\ lastCall' = Called("set_password", r)
            /\ lastWrite' = IF r.res = Ok
                            THEN Written("set_password", password)
                            ELSE lastWrite
    /\ UNCHANGED <<registry, pc, locals, history>>
    /\ UNCHANGED <<lastInstalled, poisoned, configuration>>

Entry_set_secret(p) ==
    /\ pc[p] = "idle"
    /\ Held
    /\ \E secret \in Secrets :
          LET r == set_secret(entry, secret) IN
            /\ entry' = r.cred
            /\ lastCall' = Called("set_secret", r)
            /\ lastWrite' = IF r.res = Ok THEN Written("set_secret", secret)
                            ELSE lastWrite
    /\ UNCHANGED <<registry, pc, locals, history>>
    /\ UNCHANGED <<lastInstalled, poisoned, configuration>>

Entry_get_password(p) ==
    /\ pc[p] = "idle"
    /\ Held
    /\ LET r == get_password(entry) IN
         /\ entry' = r.cred
         /\ lastCall' = Called("get_password", r)
    /\ UNCHANGED <<registry, pc, locals, history, lastWrite>>
    /\ UNCHANGED <<lastInstalled, poisoned, configuration>>

Entry_get_secret(p) ==
    /\ pc[p] = "idle"
    /\ Held
    /\ LET r == get_secret(entry) IN
         /\ entry' = r.cred
         /\ lastCall' = Called("get_secret", r)
    /\ UNCHANGED <<registry, pc, locals, history, lastWrite>>
    /\ UNCHANGED <<lastInstalled, poisoned, configuration>>

Entry_delete_credential(p) ==
    /\ pc[p] = "idle"
    /\ Held
    /\ LET r == delete_credential(entry) IN
         /\ entry' = r.cred
         /\ lastCall' = Called("delete_credential", r)
         /\ lastWrite' = IF r.res = Ok
                         THEN [op |-> "delete", val |-> <<>>, replaced |-> FALSE,
                               revived |-> lastWrite.revived]
                         ELSE lastWrite
    /\ UNCHANGED <<registry, pc, locals, history>>
    /\ UNCHANGED <<lastInstalled, poisoned, configuration>>

Entry_get_credential(p) ==
    /\ pc[p] = "idle"
    /\ Held
    /\ LET r == get_credential(entry) IN
         /\ entry' = r.cred
         /\ lastCall' = Called("get_credential", r)
    /\ UNCHANGED <<registry, pc, locals, history, lastWrite>>
    /\ UNCHANGED <<lastInstalled, poisoned, configuration>>

\* ------------------------------------------------- the registry claims
Built == {p \in Threads : pc[p] = "built"}
EffectiveAtStart(p) == IF startOverride[p] = None THEN Platform ELSE startOverride[p]

\* C1: the platform default is constructed at most once in the process, and
\* every Entry creation that finds no override resolves to, and builds with,
\* that one instance.
PlatformDefaultConstructedOnce ==
    /\ constructed <= 1
    /\ \A p \in Threads :
          /\ builder[p].fac = Platform => builder[p] = DEFAULT /\ builder[p].inst = 1
          /\ credential[p].by.fac = Platform => credential[p].by = DEFAULT
          /\ (pc[p] = "built" /\ startOverride[p] = None /\ racers[p] = {})
                => credential[p].by = DEFAULT /\ DEFAULT.inst = 1

\* two concurrent creations have both built with the platform default
WitnessSharedPlatformDefault ==
    \E p, q \in Built :
        /\ p # q
        /\ credential[p].by.fac = Platform
        /\ credential[q].by.fac = Platform
        /\ constructed = 1

\* C2: an Entry creation that starts after set_default_credential_builder(F)
\* returned, with no set_default_credential_builder call in flight or begun
\* during it, builds with F; and whenever an override was installed when the
\* creation started it does not build with the platform default, whether or
\* not that default has been constructed.
OverridePrecedence ==
    \A p \in Built :
        startOverride[p] # None =>
            /\ credential[p].by.fac # Platform
            /\ racers[p] = {} => credential[p].by.fac = startOverride[p]

\* a creation used the override although the platform default was cached
WitnessOverrideOverCachedDefault ==
    \E p \in Built :
        /\ startOverride[p] = "F1"
        /\ racers[p] = {}
        /\ once = "complete"
        /\ credential[p].by.fac = "F1"

\* C3: the override slot is written only while no Entry creation is inside
\* the read section, at most one set_default_credential_builder call is
\* inside the write section, and no call is inside the write section while a
\* creation is inside the read section.
InstallIsExclusive ==
    /\ [](Cardinality(InWrite) <= 1 /\ (InWrite # {} => InRead = {}))
    /\ [][(\E p \in Threads : pc[p] = "store" /\ pc'[p] = "unlock")
            => (InRead = {} /\ InRead' = {})]_vars

\* several creations are inside the read section at the same time
WitnessConcurrentReaders ==
    /\ Cardinality(InRead) >= 2
    /\ readers >= 2

\* C4: an Entry creation that overlaps installs builds with one live builder,
\* which is the one effective when it started or the argument of one of the
\* installs it overlapped, and no thread crashes.
RacingCreationSeesOldOrNew ==
    \A p \in Threads :
        /\ pc[p] # "crashed"
        /\ builder[p].live
        /\ pc[p] = "built" =>
              /\ credential[p].by = builder[p]
              /\ credential[p].by.fac \in {EffectiveAtStart(p)} \cup racers[p]

\* a creation that overlapped an install built with the new builder
WitnessRacingCreationSeesNew ==
    \E p \in Built :
        /\ racers[p] # {}
        /\ credential[p].by.fac \in racers[p]
        /\ credential[p].by.fac # EffectiveAtStart(p)

\* C11: whenever no install is inside its write section the slot holds the
\* argument of the latest set_default_credential_builder call that returned
\* (nothing before the first); a creation that starts after that call returned
\* and overlaps no install builds with it; a slot that holds an override never
\* becomes empty again.
OverrideReplacement ==
    /\ [](/\ InWrite = {} => DEFAULT_BUILDER.fac = lastInstalled
          /\ DEFAULT_BUILDER.fac \in ClientBuilders \cup {None}
          /\ \A p \in Built :
                (racers[p] = {} /\ lastInstalled # None) =>
                    (credential[p].by = DEFAULT_BUILDER
                        /\ credential[p].by.fac = lastInstalled))
    /\ [][/\ DEFAULT_BUILDER # NoBuilder => DEFAULT_BUILDER' # NoBuilder
          /\ \A p \in Threads :
                (pc[p] = "unlock" /\ pc'[p] = "idle") =>
                    (lastInstalled' = new[p].fac /\ DEFAULT_BUILDER'.fac = new[p].fac)]_vars

\* a second install has just replaced the override F1 by F2
WitnessOverrideReplaced ==
    \E p \in Threads :
        /\ pc[p] = "unlock"
        /\ lastInstalled = "F1"
        /\ DEFAULT_BUILDER.fac = "F2"

InCall == {p \in Threads : pc[p] \in Creating \cup Installing}
CallStarts == \E p \in Threads : pc[p] = "idle" /\ pc'[p] \in {"read", "write"}

\* C12 as stated: under fair scheduling every Entry creation and every
\* set_default_credential_builder call that has started returns.
EveryCallReturns ==
    \A p \in Threads : (pc[p] \in Creating \cup Installing) ~> (pc[p] = "idle")

\* C12, amended: no state is a deadlock (while a call is in progress some
\* call in progress can take a step), and under fair scheduling every call
\* in progress returns unless other calls are started again and again.
NoDeadlockAndQuiescentCallsReturn ==
    /\ [](InCall # {} =>
            \E p \in InCall :
                ENABLED (read_lock(p) \/ resolve(p) \/ default_credential_builder(p)
                         \/ build(p) \/ return_entry(p)
                         \/ write_lock(p) \/ store(p) \/ unlock(p)))
    /\ (<>[][~CallStarts]_vars => EveryCallReturns)

\* an install waits for the write lock while a creation is in the read
\* section and another waits for the platform default to be constructed
WitnessInstallerWaits ==
    \E p, q \in Threads :
        /\ pc[p] = "write"
        /\ pc[q] \in ReadSection
        /\ readers > 0

\* C13: a set_default_credential_builder call that fails part-way leaves the
\* slot holding a complete override, and no call that starts afterwards fails
\* because of it.
FailedInstallDoesNotStrand ==
    /\ poisoned => DEFAULT_BUILDER.fac \in ClientBuilders /\ DEFAULT_BUILDER.live
    /\ \A p \in Threads : startPoisoned[p] => pc[p] # "expect_panicked"

AllIdle == \A p \in Threads : pc[p] = "idle"

\* C14: the override slot changes only in the store of an install, the cached
\* platform default only in a creation that found the slot empty; a step of
\* Entry::new_with_credential or of a method of the Entry leaves the registry
\* alone, starts no call and consults no builder, and new_with_credential
\* can always be called.
RegistryChangesOnlyThroughTwoPaths ==
    /\ [](AllIdle => \A p \in Threads : ENABLED Entry_new_with_credential(p))
    /\ [][/\ DEFAULT_BUILDER' # DEFAULT_BUILDER =>
                \E p \in Threads : pc[p] = "store" /\ pc'[p] # "store"
          /\ <<once, DEFAULT, constructed>>' # <<once, DEFAULT, constructed>> =>
                /\ DEFAULT_BUILDER = NoBuilder
                /\ \E p \in Threads : pc[p] \in {"resolve", "init"} /\ pc'[p] # pc[p]
          /\ (AllIdle /\ <<entry, lastCall>>' # <<entry, lastCall>>) =>
                UNCHANGED <<DEFAULT_BUILDER, once, DEFAULT, constructed, pc, builder>>]_vars

\* with an override installed and the platform default cached, the client
\* wraps a credential of its own and asks for it back
WitnessCallerCredential ==
    /\ DEFAULT_BUILDER.fac = "F1"
    /\ constructed = 1
    /\ entry.by = "caller"
    /\ lastCall.op = "get_credential"

\* C17: the Entry keeps the holder and target it was created with: a method
\* call is forwarded to that holder, and no step of an install changes the
\* Entry or what its reads return.
EntryBoundToOneHolder ==
    [][/\ (Held /\ lastCall'.op # None) =>
             /\ entry'.by = entry.by
             /\ entry'.target = entry.target
       /\ (AllIdle /\ lastCall' # lastCall /\ lastCall'.op # None) =>
             /\ lastCall'.op = "get_password" =>
                   lastCall'.res = cred_get_password(entry).res
             /\ lastCall'.op = "get_secret" =>
                   lastCall'.res = cred_get_secret(entry).res
             /\ lastCall'.op = "delete_credential" =>
                   /\ lastCall'.res = cred_delete_credential(entry).res
                   /\ entry' = cred_delete_credential(entry).cred
             /\ lastCall'.op = "set_password" =>
                   /\ lastWrite'.op = "set_password"
                   /\ lastCall'.res = cred_set_password(entry, lastWrite'.val).res
                   /\ entry' = cred_set_password(entry, lastWrite'.val).cred
             /\ lastCall'.op = "set_secret" =>
                   /\ lastWrite'.op = "set_secret"
                   /\ lastCall'.res = cred_set_secret(entry, lastWrite'.val).res
                   /\ entry' = cred_set_secret(entry, lastWrite'.val).cred
       /\ (\E p \in Threads : pc[p] \in Installing \/ pc'[p] \in Installing) =>
             /\ entry' = entry
             /\ cred_get_password(entry').res = cred_get_password(entry).res
             /\ cred_get_secret(entry').res = cred_get_secret(entry).res]_vars

\* an Entry created from the platform default is read after an override
\* was installed
WitnessEntryOutlivesInstall ==
    /\ AllIdle
    /\ entry.by = Platform
    /\ lastInstalled = "F2"
    /\ DEFAULT_BUILDER.fac = "F2"
    /\ lastWrite.op = "set_secret"
    /\ lastCall.op = "get_secret"
    /\ lastCall.res = OkBytes(<<254>>)

\* C18: when build fails the call returns without an Entry, after that one
\* build, with the override and the cached platform default as they were, and
\* with its read guard released: no guard outlives its call, so the lock is
\* free whenever no call is in progress.
FailedBuildLeavesRegistry ==
    /\ [](/\ readers = Cardinality(InRead)
          /\ AllIdle => write_may_acquire(readers, writer) /\ read_may_acquire(writer))
    /\ [][\A p \in Threads :
            /\ (pc[p] = "build" /\ pc'[p] # "build") => pc'[p] \in {"built", "crashed"}
            /\ (pc[p] = "built" /\ pc'[p] # "built" /\ credential[p].res = "Err") =>
                  /\ pc'[p] = "idle"
                  /\ entry' = entry
                  /\ UNCHANGED <<DEFAULT_BUILDER, once, DEFAULT, constructed>>
                  /\ readers' = readers - 1]_vars

\* the build of an installed builder has failed while an install waits for
\* the write lock
WitnessBuildFailed ==
    \E p, q \in Threads :
        /\ pc[p] = "built"
        /\ credential[p].res = "Err"
        /\ credential[p].by.fac = "F1"
        /\ pc[q] = "write"

\* C19: the platform default is constructed only by a creation that is
\* initialising DEFAULT with the slot empty; once an install has returned it
\* is never constructed, and no step of an install constructs it.
DefaultConstructedOnlyOnEmptySlot ==
    /\ [](\A p \in Threads :
            pc[p] = "init" => startOverride[p] = None /\ DEFAULT_BUILDER = NoBuilder)
    /\ [][/\ constructed' # constructed =>
                /\ lastInstalled = None
                /\ DEFAULT_BUILDER = NoBuilder
                /\ \E p \in Threads : pc[p] = "init" /\ pc'[p] = "build"
          /\ \A p \in Threads :
                (pc[p] \in Installing /\ pc'[p] # pc[p]) =>
                    UNCHANGED <<once, DEFAULT, constructed>>]_vars

\* an install returned first, a creation then built with the override, and
\* the platform default was not constructed
WitnessDefaultNeverConstructed ==
    /\ constructed = 0
    /\ once = "incomplete"
    /\ lastInstalled = "F1"
    /\ \E p \in Threads :
          pc[p] = "built" /\ credential[p].res = "Ok" /\ credential[p].by.fac = "F1"

\* C20: the Entry stays usable after a delete: a set that follows a successful
\* delete succeeds, the gets that follow return the value of that set, the
\* delete that follows succeeds, and the gets after it return NoEntry.
UsableAfterDelete ==
    /\ []((lastWrite.revived /\ lastWrite.op \in Sets) =>
            /\ Held /\ entry.secret.some
            /\ lastCall.op = "get_secret" => lastCall.res = OkBytes(StoredBy(lastWrite))
            /\ lastCall.op = "get_password" =>
                  lastCall.res = decode_password(StoredBy(lastWrite))
            /\ lastCall.op = "delete_credential" => lastCall.res = Ok)
    /\ []((lastWrite.revived /\ lastWrite.op = "delete") =>
            /\ Held /\ ~entry.secret.some
            /\ lastCall.op \in Gets => lastCall.res = ErrNoEntry)
    /\ [][/\ (lastWrite.op = "delete" /\ lastCall'.op \in Sets /\ lastCall' # lastCall) =>
                /\ lastCall'.res = Ok
                /\ lastWrite'.op \in Sets /\ lastWrite'.revived
          /\ (lastWrite.revived /\ lastWrite.op \in Sets
              /\ lastCall'.op = "delete_credential" /\ lastCall' # lastCall) =>
                /\ lastCall'.res = Ok
                /\ lastWrite'.op = "delete" /\ lastWrite'.revived]_vars

\* set, delete, set again, delete again, and the read that follows finds
\* nothing
WitnessUsableAfterDelete ==
    /\ lastWrite.revived
    /\ lastWrite.op = "delete"
    /\ lastCall.op = "get_password"
    /\ lastCall.res = ErrNoEntry

\* the crate documentation: the platforms each keystore feature applies to,
\* and the keystore module it provides there
AppliesTo(feature) ==
    CASE feature = "apple-native" -> {"macos", "ios"}
      [] feature = "windows-native" -> {"windows"}
      [] feature = "linux-native" -> {"linux"}
      [] feature = "sync-secret-service" -> {"linux", "freebsd", "openbsd"}
      [] feature = "async-secret-service" -> {"linux", "freebsd", "openbsd"}

Keystore(feature, os) ==
    CASE feature = "apple-native" -> os
      [] feature = "windows-native" -> "windows"
      [] feature = "linux-native" -> "keyutils"
      [] feature = "sync-secret-service" -> "secret_service"
      [] feature = "async-secret-service" -> "secret_service"

Applicable == {f \in features : target_os \in AppliesTo(f)}
Accepted == default # NotCompiled /\ ~default.error
Rejected == default # NotCompiled /\ default.error

\* C15: in every accepted build exactly one module is bound as `default`: the
\* mock store exactly when no enabled keystore feature applies to the target
\* platform, and otherwise the one native keystore that applies.
PlatformSelection ==
    Accepted =>
        /\ Cardinality(default.bound) = 1
        /\ default.bound = {"mock"} <=> Applicable = {}
        /\ Applicable # {} => default.bound = {Keystore(f, target_os) : f \in Applicable}

\* a keystore feature that applies is enabled next to one that does not
WitnessNativeKeystoreSelected ==
    /\ Accepted
    /\ target_os = "freebsd"
    /\ features = {"sync-secret-service", "apple-native"}
    /\ default.bound = {"secret_service"}

\* C16: a build with more than one keystore feature applying to its target
\* platform is rejected, so an accepted build has at most one.
DuplicateKeystoreRejected ==
    /\ (default # NotCompiled /\ Cardinality(Applicable) > 1) => Rejected
    /\ Accepted => Cardinality(Applicable) <= 1

\* both secret-service keystores are selected on a platform they apply to
WitnessDuplicateRejected ==
    /\ Rejected
    /\ target_os = "openbsd"
    /\ features = {"sync-secret-service", "async-secret-service"}

\* --------------------------------------------------- the Entry claims
\* C5: a get that follows a successful set of S on the Entry, with no other
\* set or delete in between, returns exactly S: get_password the password
\* that set_password stored, get_secret the bytes that set_secret stored.
RoundTrip ==
    /\ (lastCall.op = "get_password" /\ lastWrite.op = "set_password")
          => lastCall.res = OkString(lastWrite.val)
    /\ (lastCall.op = "get_secret" /\ lastWrite.op = "set_secret")
          => lastCall.res = OkBytes(lastWrite.val)

\* a three-byte character went through set_password and get_password
WitnessRoundTripMultiByte ==
    /\ lastCall.op = "get_password"
    /\ lastWrite.op = "set_password"
    /\ lastWrite.val = <<12371>>
    /\ lastCall.res = OkString(<<12371>>)

\* C6: a get that follows a successful delete_credential, with no set in
\* between, returns NoEntry.
DeleteThenRead ==
    (lastCall.op \in Gets /\ lastWrite.op = "delete") => lastCall.res = ErrNoEntry

\* get_secret returned NoEntry after a value was stored and deleted
WitnessReadAfterDelete ==
    /\ lastCall.op = "get_secret"
    /\ lastWrite.op = "delete"
    /\ lastCall.res = ErrNoEntry

\* C7: a get on an Entry that was never written returns NoEntry, no value,
\* and changes nothing.
MissingRead ==
    (lastCall.op \in Gets /\ lastWrite.op = "never") =>
        /\ lastCall.res = ErrNoEntry
        /\ ~lastCall.changed
        /\ entry.secret = NoSecret

\* get_password was called on an Entry nothing was written to
WitnessMissingRead ==
    /\ lastCall.op = "get_password"
    /\ lastWrite.op = "never"
    /\ lastCall.res = ErrNoEntry

\* bytes that no UTF-8 text contains: 0xFE or 0xFF anywhere, a first byte
\* 0xC3 with no continuation byte behind it, a continuation byte 0xA9 that
\* follows no first byte
NotUtf8(v) ==
    \E i \in 1..Len(v) :
        \/ v[i] \in {254, 255}
        \/ v[i] = 195 /\ (i = Len(v) \/ v[i + 1] < 128 \/ v[i + 1] > 191)
        \/ v[i] = 169 /\ (i = 1 \/ v[i - 1] # 195)

\* C8: after set_secret(B) with B not UTF-8, get_password returns
\* BadEncoding(B) and changes nothing, so that get_secret returns B after it,
\* and get_secret returns B.
BadEncodingCarriesBytes ==
    (lastWrite.op = "set_secret" /\ NotUtf8(lastWrite.val)) =>
        /\ lastCall.op = "get_password" =>
              /\ lastCall.res = ErrBadEncoding(lastWrite.val)
              /\ ~lastCall.changed
              /\ get_secret(entry).res = OkBytes(lastWrite.val)
        /\ lastCall.op = "get_secret" => lastCall.res = OkBytes(lastWrite.val)

\* get_password failed on the bytes 0xFF 0xFE
WitnessBadEncoding ==
    /\ lastWrite.op = "set_secret"
    /\ lastWrite.val = <<255, 254>>
    /\ lastCall.op = "get_password"
    /\ lastCall.res = ErrBadEncoding(<<255, 254>>)

\* what a get returns for the value a set stored
Reads(w, e) ==
    IF w.op = "set_password" THEN get_password(e).res = OkString(w.val)
    ELSE get_secret(e).res = OkBytes(w.val)

\* C9: once a set of B succeeded on an Entry that held A, the gets return B
\* and, B differing from A, not A; once a delete succeeded on an Entry that
\* held A, the gets return NoEntry.
UpdateLeavesOnlyLatest ==
    /\ []((lastCall.op \in Gets /\ lastWrite.replaced) =>
            lastCall.res = IF lastCall.op = "get_secret" THEN OkBytes(StoredBy(lastWrite))
                           ELSE decode_password(StoredBy(lastWrite)))
    /\ [][/\ (lastWrite.op \in Sets /\ lastWrite'.op \in Sets) =>
               /\ Reads(lastWrite', entry')
               /\ get_secret(entry').res = OkBytes(StoredBy(lastWrite'))
               /\ StoredBy(lastWrite) # StoredBy(lastWrite') =>
                     /\ ~Reads(lastWrite, entry')
                     /\ get_secret(entry').res # OkBytes(StoredBy(lastWrite))
          /\ (lastWrite.op \in Sets /\ lastWrite'.op = "delete") =>
               /\ get_password(entry').res = ErrNoEntry
               /\ get_secret(entry').res = ErrNoEntry]_vars

\* get_password returned the second of two different values set in a row
WitnessUpdate ==
    /\ lastWrite.op = "set_password"
    /\ lastWrite.replaced
    /\ lastCall.op = "get_password"
    /\ lastCall.res = OkString(lastWrite.val)

\* C10: delete_credential on an Entry with nothing stored returns NoEntry and
\* changes nothing; it succeeds only when a value was stored, and a value is
\* stored exactly when the latest successful write was a set.
DeleteOfMissing ==
    /\ Held => (entry.secret.some <=> lastWrite.op \in Sets)
    /\ lastCall.op = "delete_credential" =>
          /\ ~lastCall.had => (lastCall.res = ErrNoEntry /\ ~lastCall.changed)
          /\ lastCall.res = Ok => (lastCall.had /\ lastWrite.op = "delete")
          /\ lastCall.res # Ok =>
                (lastCall.res = ErrNoEntry /\ lastWrite.op \in {"never", "delete"})

\* the second of two deletes returned NoEntry
WitnessSecondDelete ==
    /\ lastCall.op = "delete_credential"
    /\ lastCall.res = ErrNoEntry
    /\ lastWrite.op = "delete"

\* ------------------------------------------------------- specifications
Next ==
    \E p \in Threads :
        \/ Entry_new(p)
        \/ Entry_new_with_target(p)
        \/ read_lock(p)
        \/ resolve(p)
        \/ default_credential_builder(p)
        \/ build(p)
        \/ return_entry(p)
        \/ set_default_credential_builder(p)
        \/ write_lock(p)
        \/ store(p)
        \/ unlock(p)

Spec == Init /\ [][Next]_vars

\* a thread inside a call keeps running: every step that stays possible is
\* taken. std::sync::RwLock fixes no priority policy, so a thread that waits
\* for the lock is granted it only if the lock stays free
Fairness ==
    \A p \in Threads :
        /\ WF_vars(read_lock(p))
        /\ WF_vars(write_lock(p))
        /\ WF_vars(resolve(p))
        /\ WF_vars(default_credential_builder(p))
        /\ WF_vars(build(p))
        /\ WF_vars(return_entry(p))
        /\ WF_vars(store(p))
        /\ WF_vars(unlock(p))

SpecFair == Spec /\ Fairness

\* the registry when the Drop of a client's builder may panic
NextPanic ==
    \/ Next
    \/ \E p \in Threads : drop_panics(p)

SpecPanic == Init /\ [][NextPanic]_vars

\* one thread that creates an Entry and then works with it
NextEntry ==
    \/ Entry_new(MainThread)
    \/ Entry_new_with_target(MainThread)
    \/ read_lock(MainThread)
    \/ resolve(MainThread)
    \/ default_credential_builder(MainThread)
    \/ build(MainThread)
    \/ return_entry(MainThread)
    \/ set_default_credential_builder(MainThread)
    \/ write_lock(MainThread)
    \/ store(MainThread)
    \/ unlock(MainThread)
    \/ Entry_new_with_credential(MainThread)
    \/ Entry_set_password(MainThread)
    \/ Entry_set_secret(MainThread)
    \/ Entry_get_password(MainThread)
    \/ Entry_get_secret(MainThread)
    \/ Entry_delete_credential(MainThread)
    \/ Entry_get_credential(MainThread)

SpecEntry == Init /\ [][NextEntry]_vars

\* the build of the crate for each target platform and feature set
SpecBuild == InitBuild /\ [][compile]_vars

====
